---- MODULE Spec2Model ----
(***************************************************************************)
(* Authentication gate of streamlit_template: is_authenticated,            *)
(* get_current_user, get_user_role (auth/session.py) and the guards        *)
(* require_auth / require_role (auth/decorators.py), run by concurrent     *)
(* Streamlit sessions that share the users table (database/models.py).     *)
(* A session's code between two store operations touches only that        *)
(* session's own state, so each action runs from one store operation to    *)
(* the next.                                                                *)
(* CacheManager and cached_function (core/cache_manager.py) are checked    *)
(* under their own specifications, SpecCache and those after it; the pure  *)
(* functions and the other components have a specification each.           *)
(***************************************************************************)
EXTENDS Integers, Sequences, FiniteSets, TLC

\* ---------------------------------------------------------------- bounds
NumEmails == 2
NumSubs == 2
\* seconds the clock may pass beyond default_ttl, and the largest ttl given
MaxShort == 2
MaxTtl == 2
\* rows the activity_logs table may hold
MaxLogs == 2
\* the largest max_attempts given to retry
MaxAttempts == 3

\* two script-run threads of the Streamlit server
Sessions == {"s1", "s2"}
Emails == 1..NumEmails
Subs == 1..NumSubs

\* admin_emails of secrets.toml: the first email is allow-listed
AdminEmails == {1}

Roles == {"user", "admin"}

\* ------------------------------------------------------------ data model
\* the dict built by get_current_user (email and sub claims), None as NoUser
NoUser == [email |-> 0, sub |-> 0]
Principals == [email : Emails, sub : Subs]

\* a row of the users table (columns that decide a role or a constraint)
User(email, google_sub, role) ==
    [email |-> email, google_sub |-> google_sub, role |-> role]
UserRows == [email : Emails, google_sub : Subs, role : Roles]

\* Field(unique=True) on email and on google_sub
UniqueEmail(rows) == \A r1, r2 \in rows : r1.email = r2.email => r1 = r2
UniqueSub(rows) == \A r1, r2 \in rows : r1.google_sub = r2.google_sub => r1 = r2

\* st.user of one session: is_logged_in raises AttributeError, is False, is
\* True, or is True while reading a claim raises
StUser == [state : {"no_user_attr", "logged_out", "bad_claims"}, claims : {NoUser}]
          \cup [state : {"logged_in"}, claims : Principals]

Guards == {"require_auth", "require_role", "none"}
\* allowed_roles as the repository passes it: require_role(["admin"])
AllowedRoleSets == {{"admin"}}

NoRole == "-"
NoExc == "-"

VARIABLES
    users,      \* the users table: a set of rows
    st_user,    \* st_user[s]: the identity collaborator of session s
    run,        \* run[s]: the guarded call of session s's script run
    cache,      \* _cache_manager._cache: key -> entry
    now,        \* datetime.now(), in seconds
    res,        \* the last cache operation and its result
    last_set,   \* last_set[k]: the last set(k, ...) not yet invalidated or cleared
    memo,       \* the last call of a cached_function wrapper and the one before
    thr,        \* thr[s]: the cache operation session s's thread is inside
    gk,         \* the last two keys _generate_key computed, with their inputs
    activity_logs,  \* the activity_logs table: its rows in insertion order
    trk,        \* the last track_page_view / track_action call and what it did
    prev_call,  \* prev_call[s]: the frame session s's previous script run ended with
    rty         \* the call of a retry wrapper in progress

avars == <<users, st_user, run>>
cvars == <<cache, now, res, last_set, memo, thr>>
kvars == <<gk>>
mvars == <<activity_logs, trk>>
gvars == <<prev_call>>
rvars == <<rty>>
\* the state of the components outside the auth gate and the cache
xvars == <<kvars, mvars, gvars, rvars>>
vars == <<users, st_user, run, cache, now, res, last_set, memo, thr, gk,
          activity_logs, trk, prev_call, rty>>

\* CacheManager(default_ttl=3600)
default_ttl == 3600

\* None, as a cache value and as a result
None == <<>>
\* keys and values the pages pass to get / set
Keys == {<<"k1">>, <<"k2">>}
Values == {<<"a">>, <<"b">>}
\* the ttl argument of set: {} is None, {n} is n seconds
Ttls == {{}} \cup {{n} : n \in 0..MaxTtl}
\* the instants the clock takes: up to MaxShort seconds after time 0 and
\* after default_ttl
Instants == {t \in 0..(default_ttl + MaxShort) : t % default_ttl <= MaxShort}

\* res fields: op, key, at (when), out (what get returned), n (what size or
\* cleanup_expired returned), raised (exception that left the operation)
NoRes == [op |-> "none", key |-> <<"k1">>, at |-> 0, out |-> None, n |-> 0,
          raised |-> NoExc]
\* last_set[k] fields: set, value, ttl, at, and evicted (a get or a
\* cleanup_expired has since deleted the entry as expired)
NeverSet == [set |-> FALSE, value |-> None, ttl |-> {}, at |-> 0,
             evicted |-> FALSE]

\* cached_function(ttl=3600, key_prefix="")
cached_ttl == 3600
\* the decorated functions: __name__ and key_prefix are strings, written as
\* sequences of characters; module is the module that defines the function;
\* returns says what the function computes
Funcs ==
    {[module |-> "pages.a", name |-> <<"f">>, key_prefix |-> <<>>,
      ttl |-> cached_ttl, returns |-> "value"],
     [module |-> "pages.a", name |-> <<"g">>, key_prefix |-> <<>>,
      ttl |-> cached_ttl, returns |-> "None"]}
\* decorated functions of two modules: load in each of them, and under the
\* prefixes "a" and "a_" the functions _b and b
TwinFuncs ==
    {[module |-> "pages.a", name |-> <<"l", "o", "a", "d">>, key_prefix |-> <<>>,
      ttl |-> cached_ttl, returns |-> "value"],
     [module |-> "pages.b", name |-> <<"l", "o", "a", "d">>, key_prefix |-> <<>>,
      ttl |-> cached_ttl, returns |-> "value"],
     [module |-> "pages.a", name |-> <<"_", "b">>, key_prefix |-> <<"a">>,
      ttl |-> cached_ttl, returns |-> "value"],
     [module |-> "pages.b", name |-> <<"b">>, key_prefix |-> <<"a", "_">>,
      ttl |-> cached_ttl, returns |-> "value"]}
\* argument values: ints, and pandas DataFrames of 100 rows that differ
\* only in their row 50
ArgVals ==
    {[type |-> "int", v |-> 1],
     [type |-> "DataFrame", v |-> 1],
     [type |-> "DataFrame", v |-> 2]}
NoCall == [op |-> "none", fn |-> <<>>, args |-> <<>>, key |-> <<>>, at |-> 0,
           invoked |-> FALSE, out |-> None]
NoMemo == [op |-> "none", fn |-> <<>>, args |-> <<>>, key |-> <<>>, at |-> 0,
           invoked |-> FALSE, out |-> None, prev |-> NoCall]

\* a thread outside any cache operation
NoEntry == [value |-> None, created_at |-> 0, expires_at |-> 0]
IdleThread == [pc |-> "idle", op |-> "none", key |-> <<"k1">>, entry |-> NoEntry,
               out |-> None, raised |-> NoExc, size |-> 0, seen |-> {},
               expired_keys |-> {}]

\* no key generated yet
NoKey == [op |-> "none", func_name |-> <<>>, args |-> <<>>, kwargs |-> <<>>,
          key |-> <<>>]
\* no tracking call made yet.  Fields: fn (the function called), enabled
\* (monitoring.enable_analytics), failed (the store operation that raised),
\* opened (get_session was called), wrote (a row was committed), events (the
\* log_event names, in order), raised (exception that reached the caller)
NoTrack == [fn |-> "none", enabled |-> FALSE, failed |-> NoExc, opened |-> FALSE,
            wrote |-> FALSE, events |-> <<>>, raised |-> NoExc]
\* no retry wrapper entered yet.  Fields: pc (position in wrapper),
\* max_attempts and delay (the decorator's arguments), attempt (the loop
\* variable), outcomes (what each invocation of func did, in order), slept
\* (the time.sleep arguments, in order), last_exception, returned (the
\* wrapper's return value), raised (exception that left the wrapper)
NoRetry == [pc |-> "idle", max_attempts |-> 0, delay |-> 0, attempt |-> 0,
            outcomes |-> <<>>, slept |-> <<>>, last_exception |-> NoExc,
            returned |-> None, raised |-> NoExc]

CacheIdle ==
    /\ cache = <<>>
    /\ now = 0
    /\ res = NoRes
    /\ last_set = [k \in Keys |-> NeverSet]
    /\ memo = NoMemo
    /\ thr = [s \in Sessions |-> IdleThread]

\* run[s] between two script runs.  Fields: pc (position), guard and allowed
\* (the decorator and its allowed_roles), user, exc (exception caught by
\* get_user_role's handler), raised (exception that left get_user_role),
\* user_role (its return value), body_runs (times the wrapped function ran),
\* stopped (st.stop() ended the call), ui (st.warning / st.info / st.error /
\* st.button output), db_ops (store operations attempted), args (*args of
\* the wrapper), body_args (what the wrapped function received), returned
\* (what the wrapper returned)
IdleRun ==
    [pc |-> "idle", guard |-> "none", allowed |-> {}, user |-> NoUser,
     exc |-> NoExc, raised |-> NoExc, user_role |-> NoRole, body_runs |-> 0,
     stopped |-> FALSE, ui |-> <<>>, db_ops |-> <<>>,
     args |-> <<>>, body_args |-> <<>>, returned |-> <<>>]

\* what a finished call decided: the guard, the principal and the role it
\* derived, and whether the wrapped function ran
Outcome(f) ==
    [guard |-> f.guard, user |-> f.user, user_role |-> f.user_role,
     body_runs |-> f.body_runs]

OthersIdle ==
    /\ gk = [last |-> NoKey, prev |-> NoKey]
    /\ activity_logs = <<>>
    /\ trk = NoTrack
    /\ prev_call = [s \in Sessions |-> Outcome(IdleRun)]
    /\ rty = NoRetry

\* ------------------------------------------------------- pure functions
\* mutation: the AttributeError branch answers True
is_authenticated_attr(u) ==
    IF u.state = "no_user_attr" THEN TRUE
    ELSE u.state \in {"logged_in", "bad_claims"}

is_authenticated(u) ==
    IF u.state = "no_user_attr" THEN FALSE
    ELSE u.state \in {"logged_in", "bad_claims"}

get_current_user(u) ==
    IF ~is_authenticated(u) THEN NoUser
    ELSE IF u.state = "bad_claims" THEN NoUser
    ELSE u.claims

\* mutation: the None test is missing
NotUser_never(u) == FALSE

\* "if not user" in get_user_role
NotUser(u) == u = NoUser

\* session.exec(select(UserModel).where(email == ...)).first()
FindByEmail(rows, email) == {r \in rows : r.email = email}

\* mutation: the new row takes the allow-list role
NewUser_allowlist(u) ==
    User(u.email, u.sub, IF u.email \in AdminEmails THEN "admin" ELSE "user")

\* UserModel(email=..., google_sub=..., role="user")
NewUser(u) == User(u.email, u.sub, "user")

\* mutation: only the email index is unique
ViolatesUnique_email(rows, row) == \E r \in rows : r.email = row.email

\* the database rejects a commit that breaks a unique index
ViolatesUnique(rows, row) ==
    \/ \E r \in rows : r.email = row.email
    \/ \E r \in rows : r.google_sub = row.google_sub

\* mutation: the role returned for an email is remembered from the
\* session's previous call
StoredRole_cached(db_user) ==
    LET hit == {s \in Sessions : /\ prev_call[s].user.email = db_user.email
                                 /\ prev_call[s].user_role \in Roles} IN
    IF hit # {} THEN prev_call[CHOOSE s \in hit : TRUE].user_role
    ELSE db_user.role

\* mutation: the allow-list overrides the stored role
StoredRole_allowlist(db_user) ==
    IF db_user.email \in AdminEmails THEN "admin" ELSE db_user.role

\* "if db_user: return db_user.role"
StoredRole(db_user) == db_user.role

\* mutation: the handler names the connection error only
HandlerCatches_narrow(e) == e = "OperationalError"

\* "except Exception as e": both store errors derive from Exception
HandlerCatches(e) == e \in {"OperationalError", "IntegrityError"}

\* the except branch: allow-list, else "user"
FallbackRole(email) == IF email \in AdminEmails THEN "admin" ELSE "user"

\* st.error(...) is reached only after the allow-list test returned nothing
FallbackLogs(email) == email \notin AdminEmails

\* mutation: only the anonymous role is refused
RoleDenied_anonymous(role, allowed_roles) == role = "anonymous"

\* "if user_role not in allowed_roles"
RoleDenied(role, allowed_roles) == role \notin allowed_roles

Msg(kind, arg) == [kind |-> kind, arg |-> arg]

\* ------------------------------------- session-local code, frame to frame
\* st.stop(): the script run ends here
st_stop(f) == [f EXCEPT !.stopped = TRUE, !.pc = "done"]

\* the wrapped function: its result depends on its arguments
func(args) == <<"result">> \o args

\* mutation: the wrapper calls the function and drops its result
RunBody_noreturn(f) ==
    [f EXCEPT !.body_runs = @ + 1, !.body_args = f.args, !.pc = "done"]

\* return func(*args, **kwargs)
RunBody(f) ==
    [f EXCEPT !.body_runs = @ + 1, !.body_args = f.args,
              !.returned = func(f.args), !.pc = "done"]

\* require_role's wrapper after user_role = get_user_role()
RoleCheck(f) ==
    IF RoleDenied(f.user_role, f.allowed)
    THEN st_stop([f EXCEPT !.ui = @ \o
                    <<Msg("denied", {}), Msg("current_role", {f.user_role}),
                      Msg("required_roles", f.allowed)>>])
    ELSE RunBody(f)

\* get_user_role returns role, to require_role's wrapper or to the page
ReturnRole(f, role) ==
    LET g == [f EXCEPT !.user_role = role] IN
    IF g.guard = "require_role" THEN RoleCheck(g) ELSE [g EXCEPT !.pc = "done"]

\* a store operation raised e: except Exception as e: allow-list, st.error
Fallback(f, e) ==
    IF HandlerCatches(e)
    THEN ReturnRole([f EXCEPT !.exc = e,
                              !.ui = IF FallbackLogs(f.user.email)
                                     THEN Append(@, Msg("role_error", {}))
                                     ELSE @],
                    FallbackRole(f.user.email))
    ELSE [f EXCEPT !.exc = e, !.raised = e, !.pc = "done"]

\* get_user_role up to the store: user = get_current_user();
\* if not user: return "anonymous"
GetUserRole(f, u) ==
    LET usr == get_current_user(u) IN
    IF NotUser(usr)
    THEN ReturnRole([f EXCEPT !.user = usr], "anonymous")
    ELSE [f EXCEPT !.user = usr, !.pc = "select"]

\* the wrapper of require_auth or require_role up to the store; clicked is
\* what st.button returns
Wrapper(f, u, clicked) ==
    IF f.guard = "none" THEN GetUserRole(f, u)
    ELSE IF ~is_authenticated(u)
    THEN st_stop([f EXCEPT !.ui =
                    <<Msg("warning", {})>>
                    \o (IF f.guard = "require_auth" THEN <<Msg("info", {})>> ELSE <<>>)
                    \o <<Msg("button", {})>>
                    \o (IF clicked THEN <<Msg("login", {})>> ELSE <<>>)])
    ELSE IF f.guard = "require_auth" THEN RunBody(f)
    ELSE GetUserRole(f, u)

\* ------------------------------------------------------------------ Init
ValidStores == {rows \in SUBSET UserRows : UniqueEmail(rows) /\ UniqueSub(rows)}

Init ==
    /\ users \in ValidStores
    /\ st_user = [s \in Sessions |-> [state |-> "logged_out", claims |-> NoUser]]
    /\ run = [s \in Sessions |-> IdleRun]
    /\ CacheIdle
    /\ OthersIdle

\* ----------------------------------------------- identity collaborator
\* between two script runs a session that is not logged in logs in
\* (st.login), or its identity collaborator changes what it reports
Login(s) ==
    /\ run[s].pc = "idle"
    /\ st_user[s].state # "logged_in"
    /\ \E u \in StUser : u # st_user[s] /\ st_user' = [st_user EXCEPT ![s] = u]
    /\ UNCHANGED <<users, run>>
    /\ UNCHANGED <<cvars, xvars>>

\* logout_user(): st.logout()
Logout(s) ==
    /\ run[s].pc = "idle"
    /\ st_user[s].state = "logged_in"
    /\ st_user' = [st_user EXCEPT ![s] = [state |-> "logged_out", claims |-> NoUser]]
    /\ UNCHANGED <<users, run>>
    /\ UNCHANGED <<cvars, xvars>>

\* ---------------------------------------------------------------- calls
\* a script run calls a guarded page (settings.py, admin.py) or
\* get_user_role directly (home.py), and runs up to its first store
\* operation; a session passes its own name to the guarded function
Call(s) ==
    /\ run[s].pc = "idle"
    /\ \E g \in Guards, a \in AllowedRoleSets \cup {{}}, clicked \in BOOLEAN :
         /\ (g = "require_role") = (a # {})
         /\ (g = "none" => ~clicked)
         /\ run' = [run EXCEPT ![s] =
                      Wrapper([IdleRun EXCEPT
                                 !.guard = g, !.allowed = a,
                                 !.args = IF g = "none" THEN <<>> ELSE <<s>>],
                              st_user[s], clicked)]
    /\ UNCHANGED <<users, st_user>>
    /\ UNCHANGED <<cvars, xvars>>

\* with next(get_session()) as session: db_user = session.exec(...).first()
SelectUser(s) ==
    /\ run[s].pc = "select"
    /\ LET f == [run[s] EXCEPT !.db_ops = Append(@, "select")] IN
         \/ run' = [run EXCEPT ![s] = Fallback(f, "OperationalError")]
         \/ \E db_user \in FindByEmail(users, f.user.email) :
              run' = [run EXCEPT ![s] = ReturnRole(f, StoredRole(db_user))]
         \/ /\ FindByEmail(users, f.user.email) = {}
            /\ run' = [run EXCEPT ![s] = [f EXCEPT !.pc = "commit"]]
    /\ UNCHANGED <<users, st_user>>
    /\ UNCHANGED <<cvars, xvars>>

\* session.add(new_user); session.commit()
CommitNewUser(s) ==
    /\ run[s].pc = "commit"
    /\ LET f == [run[s] EXCEPT !.db_ops = Append(@, "insert")] IN
         \/ /\ run' = [run EXCEPT ![s] = Fallback(f, "OperationalError")]
            /\ UNCHANGED users
         \/ /\ ViolatesUnique(users, NewUser(f.user))
            /\ run' = [run EXCEPT ![s] = Fallback(f, "IntegrityError")]
            /\ UNCHANGED users
         \/ /\ ~ViolatesUnique(users, NewUser(f.user))
            /\ users' = users \cup {NewUser(f.user)}
            /\ run' = [run EXCEPT ![s] = [f EXCEPT !.pc = "refresh"]]
    /\ UNCHANGED st_user
    /\ UNCHANGED <<cvars, xvars>>

\* session.refresh(new_user); return "user"
RefreshNewUser(s) ==
    /\ run[s].pc = "refresh"
    /\ LET f == [run[s] EXCEPT !.db_ops = Append(@, "refresh")] IN
         \/ run' = [run EXCEPT ![s] = Fallback(f, "OperationalError")]
         \/ run' = [run EXCEPT ![s] = ReturnRole(f, "user")]
    /\ UNCHANGED <<users, st_user>>
    /\ UNCHANGED <<cvars, xvars>>

\* the script run ends; the next one starts from a fresh frame
Return(s) ==
    /\ run[s].pc = "done"
    /\ run' = [run EXCEPT ![s] = IdleRun]
    /\ UNCHANGED <<users, st_user>>
    /\ UNCHANGED <<cvars, xvars>>

Next ==
    \E s \in Sessions :
        \/ Login(s)
        \/ Logout(s)
        \/ Call(s)
        \/ SelectUser(s)
        \/ CommitNewUser(s)
        \/ RefreshNewUser(s)
        \/ Return(s)

Spec == Init /\ [][Next]_vars

\* ------------------------------------------ successive calls of a session
\* the sessions whose successive script runs are followed
Callers == {"s1"}

\* the script run ends and the session's next interaction reruns the
\* script: the wrapper's locals are gone, prev_call remembers what they were
Rerun(s) ==
    /\ run[s].pc = "done"
    /\ run' = [run EXCEPT ![s] = IdleRun]
    /\ prev_call' = [prev_call EXCEPT ![s] = Outcome(run[s])]
    /\ UNCHANGED <<users, st_user>>
    /\ UNCHANGED <<cvars, kvars, mvars, rvars>>

\* between two script runs the role column of a users row is changed in
\* the database (no page of the repository writes it)
UpdateRole(email, role) ==
    /\ \A s \in Sessions : run[s].pc = "idle"
    /\ \E r \in FindByEmail(users, email) :
         /\ r.role # role
         /\ users' = (users \ {r}) \cup {User(r.email, r.google_sub, role)}
    /\ UNCHANGED <<st_user, run>>
    /\ UNCHANGED <<cvars, xvars>>

NextGate ==
    \/ \E s \in Callers :
         \/ Login(s)
         \/ Logout(s)
         \/ Call(s)
         \/ SelectUser(s)
         \/ CommitNewUser(s)
         \/ RefreshNewUser(s)
         \/ Rerun(s)
    \/ \E email \in Emails, role \in Roles : UpdateRole(email, role)

SpecGate == Init /\ [][NextGate]_vars

\* ------------------------------------------------------------ properties
Done(s) == run[s].pc = "done"
Returned(s) == Done(s) /\ run[s].user_role # NoRole
Has(s, kind) == \E i \in 1..Len(run[s].ui) : run[s].ui[i].kind = kind
Shows(s, m) == \E i \in 1..Len(run[s].ui) : run[s].ui[i] = m
Did(s, op) == \E i \in 1..Len(run[s].db_ops) : run[s].db_ops[i] = op
\* the identity collaborator is missing or reports "not logged in"
LoggedOut(s) == st_user[s].state \in {"no_user_attr", "logged_out"}
AllowListRole(email) == IF email \in AdminEmails THEN "admin" ELSE "user"

\* C1: under require_role, a caller whose resolved role is not in
\* allowed_roles never gets the wrapped body run; the call ends halted with
\* the current role and the required roles shown.
C1_DeniedRoleNeverRuns ==
    \A s \in Sessions :
        (run[s].guard = "require_role" /\ run[s].user_role # NoRole
            /\ run[s].user_role \notin run[s].allowed)
        => /\ run[s].body_runs = 0
           /\ Done(s)
           /\ run[s].stopped
           /\ Has(s, "denied")
           /\ Shows(s, Msg("current_role", {run[s].user_role}))
           /\ Shows(s, Msg("required_roles", run[s].allowed))

C1_Witness ==
    \E s \in Sessions :
        /\ Done(s) /\ run[s].guard = "require_role"
        /\ st_user[s].state = "logged_in"
        /\ run[s].user_role = "user" /\ run[s].allowed = {"admin"}
        /\ run[s].stopped /\ run[s].body_runs = 0

\* C2: for a caller that is not authenticated, a function wrapped by
\* require_auth or require_role never runs its body; the call ends halted
\* with the warning and the login button shown, no role is resolved and no
\* store operation is attempted.
C2_UnauthenticatedNeverRuns ==
    \A s \in Sessions :
        (run[s].guard \in {"require_auth", "require_role"} /\ LoggedOut(s))
        => /\ run[s].body_runs = 0
           /\ Done(s)
           /\ run[s].user_role = NoRole
           /\ run[s].db_ops = <<>>
           /\ run[s].stopped /\ Has(s, "warning") /\ Has(s, "button")

C2_Witness ==
    /\ \E s \in Sessions :
        /\ Done(s) /\ run[s].guard = "require_role" /\ LoggedOut(s)
        /\ run[s].stopped /\ run[s].db_ops = <<>>
    /\ \E s \in Sessions :
        /\ Done(s) /\ run[s].guard = "require_auth" /\ LoggedOut(s)
        /\ run[s].stopped

\* C3: when the select succeeds and finds the row of the principal's email,
\* get_user_role returns that row's stored role and inserts nothing, also
\* for an allow-listed email whose row says "user".
C3_StoredRoleWins ==
    [][\A s \in Sessions :
         (run[s].pc = "select" /\ run'[s].pc # "select"
             /\ run'[s].exc = NoExc
             /\ FindByEmail(users, run[s].user.email) # {})
         => /\ run'[s].pc = "done"
            /\ \A r \in FindByEmail(users, run[s].user.email) :
                 run'[s].user_role = r.role
            /\ users' = users]_vars

C3_Witness ==
    \E s \in Sessions :
        /\ Returned(s) /\ run[s].db_ops = <<"select">> /\ run[s].exc = NoExc
        /\ run[s].user.email \in AdminEmails
        /\ run[s].user_role = "user"
        /\ \E r \in users : r.email = run[s].user.email /\ r.role = "user"

\* C4: get_user_role returns "admin" for an authenticated user whose email
\* is in admin_emails and "user" for one whose email is not.
C4_AllowListDecidesRole ==
    \A s \in Sessions :
        (Returned(s) /\ run[s].user # NoUser)
        => run[s].user_role = AllowListRole(run[s].user.email)

\* C5 (as claimed): an insert for an email that has no row, on a store that
\* answers, adds exactly one row with role "user" for that email, and the
\* call returns "user".
C5_UnseenEmailCreatesRow ==
    [][\A s \in Sessions :
         /\ (run[s].pc = "commit" /\ run'[s].pc # "commit"
                /\ run'[s].exc # "OperationalError"
                /\ FindByEmail(users, run[s].user.email) = {})
            => /\ users' = users \cup
                     {User(run[s].user.email, run[s].user.sub, "user")}
               /\ Cardinality(users') = Cardinality(users) + 1
               /\ run'[s].pc = "refresh"
         /\ (run[s].pc = "refresh" /\ run'[s].pc # "refresh"
                /\ run'[s].exc # "OperationalError")
            => run'[s].user_role = "user" /\ users' = users]_vars

\* C5 (amended): the same, for a principal whose email has no row and whose
\* subject id is held by no row.
C5_UnseenPrincipalCreatesRow ==
    [][\A s \in Sessions :
         /\ (run[s].pc = "commit" /\ run'[s].pc # "commit"
                /\ run'[s].exc # "OperationalError"
                /\ FindByEmail(users, run[s].user.email) = {}
                /\ ~\E r \in users : r.google_sub = run[s].user.sub)
            => /\ users' = users \cup
                     {User(run[s].user.email, run[s].user.sub, "user")}
               /\ Cardinality(users') = Cardinality(users) + 1
               /\ run'[s].pc = "refresh"
         /\ (run[s].pc = "refresh" /\ run'[s].pc # "refresh"
                /\ run'[s].exc # "OperationalError")
            => run'[s].user_role = "user" /\ users' = users]_vars

C5_Witness ==
    \E s \in Sessions :
        /\ Returned(s)
        /\ run[s].db_ops = <<"select", "insert", "refresh">>
        /\ run[s].exc = NoExc /\ run[s].user_role = "user"
        /\ User(run[s].user.email, run[s].user.sub, "user") \in users

\* C6: two calls that both found the same email unseen and met no store
\* outage leave exactly one row for that email and both return "user".
C6_ConcurrentFirstLogin ==
    \A s, t \in Sessions :
        (s # t /\ Returned(s) /\ Returned(t)
            /\ run[s].user # NoUser /\ run[s].user.email = run[t].user.email
            /\ Did(s, "insert") /\ Did(t, "insert")
            /\ run[s].exc # "OperationalError"
            /\ run[t].exc # "OperationalError")
        => /\ Cardinality(FindByEmail(users, run[s].user.email)) = 1
           /\ run[s].user_role = "user"
           /\ run[t].user_role = "user"

\* C7: a call whose insert met a uniqueness violation because the row of its
\* email already exists returns the role stored in that row, and no error is
\* shown or raised.
C7_DuplicateRereads ==
    \A s \in Sessions :
        (Returned(s) /\ run[s].exc = "IntegrityError"
            /\ FindByEmail(users, run[s].user.email) # {})
        => /\ \A r \in FindByEmail(users, run[s].user.email) :
                run[s].user_role = r.role
           /\ ~Has(s, "role_error")
           /\ run[s].raised = NoExc

\* C8: a call whose store step failed raises nothing and returns "admin" for
\* an allow-listed email and "user" for any other.
C8_FallbackNeverRaises ==
    \A s \in Sessions :
        /\ run[s].raised = NoExc
        /\ run[s].exc # NoExc
           => /\ Returned(s)
              /\ run[s].user_role = AllowListRole(run[s].user.email)

C8_Witness ==
    /\ \E s \in Sessions :
        /\ Done(s) /\ run[s].exc = "IntegrityError"
        /\ run[s].user_role = "admin"
    /\ \E s \in Sessions :
        /\ Done(s) /\ run[s].exc = "OperationalError"
        /\ run[s].user_role = "user"

\* C9: every call whose store step failed has shown the error by the time
\* get_user_role returns, whichever role it returns, and raises nothing.
C9_FailureAlwaysLogged ==
    \A s \in Sessions :
        (run[s].exc # NoExc /\ Returned(s))
        => Has(s, "role_error") /\ run[s].raised = NoExc

\* C10: with no current principal get_user_role returns "anonymous" and
\* attempts no store operation.
C10_AnonymousWithoutStore ==
    \A s \in Sessions :
        (st_user[s].state # "logged_in")
        => /\ run[s].pc \in {"idle", "done"}
           /\ run[s].db_ops = <<>>
           /\ run[s].exc = NoExc
           /\ run[s].user_role \in {NoRole, "anonymous"}
           /\ (Done(s) /\ (run[s].guard = "none"
                            \/ (run[s].guard = "require_role"
                                  /\ st_user[s].state = "bad_claims")))
              => run[s].user_role = "anonymous"

C10_Witness ==
    /\ \E s \in Sessions :
        /\ Done(s) /\ run[s].guard = "none"
        /\ st_user[s].state = "logged_out"
        /\ run[s].user_role = "anonymous"
    /\ \E s \in Sessions :
        /\ Done(s) /\ run[s].guard = "require_role"
        /\ st_user[s].state = "bad_claims"
        /\ run[s].user_role = "anonymous"

\* the identity collaborator is missing, or raises while a claim is read
IdentityFails(s) == st_user[s].state \in {"no_user_attr", "bad_claims"}

\* C11: every failure of the identity collaborator is treated as anonymous
\* and never raised: is_authenticated() is false and get_current_user()
\* is None, a guarded body does not run, and get_current_user() is None
\* whenever is_authenticated() is false.
C11_IdentityFailureIsAnonymous ==
    \A s \in Sessions :
        /\ IdentityFails(s)
           => /\ ~is_authenticated(st_user[s])
              /\ get_current_user(st_user[s]) = NoUser
              /\ run[s].raised = NoExc
              /\ run[s].body_runs = 0
        /\ ~is_authenticated(st_user[s])
           => get_current_user(st_user[s]) = NoUser

\* C12: in every reachable state no two rows share an email and no two
\* share a google_sub, and a commit whose row would repeat either fails and
\* leaves the table as it was.
C12_UniqueEmailAndSub ==
    /\ [](UniqueEmail(users) /\ UniqueSub(users))
    /\ [][\A s \in Sessions :
            (run[s].pc = "commit" /\ run'[s].pc # "commit"
                /\ \E r \in users : \/ r.email = run[s].user.email
                                    \/ r.google_sub = run[s].user.sub)
            => users' = users /\ run'[s].exc # NoExc]_vars

C12_Witness ==
    \E s \in Sessions :
        /\ Done(s) /\ run[s].exc = "IntegrityError"
        /\ Cardinality(users) = 2
        /\ \E r \in users : /\ r.google_sub = run[s].user.sub
                            /\ r.email # run[s].user.email

\* C13: an authenticated caller (under require_role: one whose resolved role
\* is in allowed_roles) gets the wrapped function run exactly once with the
\* wrapper's arguments and its result returned, with no warning, denial or
\* st.stop().
C13_GuardProceedsSilently ==
    \A s \in Sessions :
        (Done(s) /\ st_user[s].state \in {"logged_in", "bad_claims"}
            /\ \/ run[s].guard = "require_auth"
               \/ (run[s].guard = "require_role"
                     /\ run[s].user_role \in run[s].allowed))
        => /\ run[s].body_runs = 1
           /\ run[s].args = <<s>>
           /\ run[s].body_args = <<s>>
           /\ run[s].returned = <<"result", s>>
           /\ ~run[s].stopped
           /\ ~Has(s, "warning") /\ ~Has(s, "button") /\ ~Has(s, "denied")

C13_Witness ==
    /\ \E s \in Sessions :
        /\ Done(s) /\ run[s].guard = "require_role"
        /\ run[s].user_role = "admin" /\ run[s].body_runs = 1
    /\ \E s \in Sessions :
        /\ Done(s) /\ run[s].guard = "require_auth" /\ run[s].body_runs = 1

\* ----------------------------------------------------------- CacheManager
\* core/cache_manager.py.  The cache is the dict of the module-level
\* _cache_manager; time is datetime.now() in whole seconds.

EmptyCache == [k \in {} |-> None]
Without(c, key) == [k \in DOMAIN c \ {key} |-> c[k]]

\* ttl = ttl or self.default_ttl: None and 0 are both falsy
ttl_or_default(ttl) ==
    IF ttl = {} \/ ttl = {0} THEN default_ttl ELSE CHOOSE n \in ttl : TRUE

\* _is_expired: datetime.now() > cache_entry["expires_at"]
is_expired(cache_entry, t) ==
    IF "expires_at" \notin DOMAIN cache_entry THEN FALSE
    ELSE t > cache_entry.expires_at

\* the value get(key) returns at time t
get(c, key, t) ==
    IF key \in DOMAIN c
    THEN IF ~is_expired(c[key], t) THEN c[key].value ELSE None
    ELSE None

get_cache_sweep(c, key, t) ==
    IF key \in DOMAIN c /\ is_expired(c[key], t)
    THEN [k \in {kk \in DOMAIN c : ~is_expired(c[kk], t)} |-> c[k]]
    ELSE c

\* the dict get(key) leaves: an expired entry is deleted
get_cache(c, key, t) ==
    IF key \in DOMAIN c /\ is_expired(c[key], t) THEN Without(c, key) ELSE c

set_noexpiry(c, key, value, ttl, t) ==
    [k \in DOMAIN c \cup {key} |->
        IF k # key THEN c[k]
        ELSE IF ttl = {} THEN [value |-> value, created_at |-> t]
        ELSE [value |-> value, created_at |-> t,
              expires_at |-> t + ttl_or_default(ttl)]]

\* set(key, value, ttl)
set(c, key, value, ttl, t) ==
    [k \in DOMAIN c \cup {key} |->
        IF k # key THEN c[k]
        ELSE [value |-> value, created_at |-> t,
              expires_at |-> t + ttl_or_default(ttl)]]

invalidate_noop(c, key) == c

\* invalidate(key)
invalidate(c, key) == IF key \in DOMAIN c THEN Without(c, key) ELSE c

\* clear()
clear(c) == EmptyCache

cleanup_expired_all(c, t) == EmptyCache

\* cleanup_expired(): the dict it leaves
cleanup_expired(c, t) ==
    [k \in {kk \in DOMAIN c : ~is_expired(c[kk], t)} |-> c[k]]

\* del self._cache[key]: KeyError if the key is not there
del_raises(c, key) == IF key \in DOMAIN c THEN NoExc ELSE "KeyError"

invalidate_raises_unguarded(c, key) == del_raises(c, key)

\* what invalidate(key) raises: del runs only `if key in self._cache`
invalidate_raises(c, key) ==
    IF key \in DOMAIN c THEN del_raises(c, key) ELSE NoExc

\* what cleanup_expired() returns: len(expired_keys)
expired_count(c, t) == Cardinality({k \in DOMAIN c : is_expired(c[k], t)})

size_live(c, t) == Cardinality({k \in DOMAIN c : ~is_expired(c[k], t)})

\* size(): len(self._cache)
size(c, t) == Cardinality(DOMAIN c)

\* the get just performed and what it returned
Got(key, out) == [op |-> "get", key |-> key, at |-> now, out |-> out, n |-> 0,
                  raised |-> NoExc]
\* any other operation just performed, what it returned and raised
Ran(op, key, n, raised) ==
    [op |-> op, key |-> key, at |-> now, out |-> None, n |-> n, raised |-> raised]
\* the ghost of the entries that c2 has no more: they were evicted
Evicted(c2) ==
    [k \in Keys |-> IF last_set[k].set /\ k \in DOMAIN cache /\ k \notin DOMAIN c2
                    THEN [last_set[k] EXCEPT !.evicted = TRUE]
                    ELSE last_set[k]]

InitCache ==
    /\ users = {}
    /\ st_user = [s \in Sessions |-> [state |-> "logged_out", claims |-> NoUser]]
    /\ run = [s \in Sessions |-> IdleRun]
    /\ CacheIdle
    /\ OthersIdle

\* datetime.now() moves on between two operations
Tick(d) ==
    /\ now + d \in Instants
    /\ now' = now + d
    /\ UNCHANGED <<cache, res, last_set, memo, thr>>
    /\ UNCHANGED <<avars, xvars>>

CacheGet(key) ==
    /\ res' = Got(key, get(cache, key, now))
    /\ cache' = get_cache(cache, key, now)
    /\ last_set' = Evicted(get_cache(cache, key, now))
    /\ UNCHANGED <<now, memo, thr>>
    /\ UNCHANGED <<avars, xvars>>

CacheSet(key, value, ttl) ==
    /\ cache' = set(cache, key, value, ttl, now)
    /\ res' = Ran("set", key, 0, NoExc)
    /\ last_set' = [last_set EXCEPT ![key] =
                       [set |-> TRUE, value |-> value, ttl |-> ttl, at |-> now,
                        evicted |-> FALSE]]
    /\ UNCHANGED <<now, memo, thr>>
    /\ UNCHANGED <<avars, xvars>>

CacheInvalidate(key) ==
    /\ cache' = invalidate(cache, key)
    /\ res' = Ran("invalidate", key, 0, invalidate_raises(cache, key))
    /\ last_set' = [last_set EXCEPT ![key] = NeverSet]
    /\ UNCHANGED <<now, memo, thr>>
    /\ UNCHANGED <<avars, xvars>>

CacheClear ==
    /\ cache' = clear(cache)
    /\ res' = Ran("clear", NoRes.key, 0, NoExc)
    /\ last_set' = [k \in Keys |-> NeverSet]
    /\ UNCHANGED <<now, memo, thr>>
    /\ UNCHANGED <<avars, xvars>>

CacheCleanup ==
    /\ cache' = cleanup_expired(cache, now)
    /\ res' = Ran("cleanup", NoRes.key, expired_count(cache, now), NoExc)
    /\ last_set' = Evicted(cleanup_expired(cache, now))
    /\ UNCHANGED <<now, memo, thr>>
    /\ UNCHANGED <<avars, xvars>>

CacheSize ==
    /\ res' = Ran("size", NoRes.key, size(cache, now), NoExc)
    /\ UNCHANGED <<cache, now, last_set, memo, thr>>
    /\ UNCHANGED <<avars, xvars>>

NextCache ==
    \/ \E d \in {1, default_ttl} : Tick(d)
    \/ \E key \in Keys : CacheGet(key)
    \/ \E key \in Keys, value \in Values, ttl \in Ttls : CacheSet(key, value, ttl)
    \/ \E key \in Keys : CacheInvalidate(key)
    \/ CacheClear
    \/ CacheCleanup
    \/ CacheSize

SpecCache == InitCache /\ [][NextCache]_vars

\* the last set on the key the last get read
LastSet == last_set[res.key]
GotKey == res.op = "get"

\* C16: a get(key) at the instant of a set(key, v, ttl=0), with no set,
\* invalidate or clear of the key in between, returns absent.
C16_ZeroTtlExpiresAtOnce ==
    (GotKey /\ LastSet.set /\ LastSet.ttl = {0} /\ LastSet.at = res.at)
    => res.out = None

\* C17 as written: a value set with no TTL is returned by every later get of
\* its key, however late, until the key is set again, invalidated or cleared.
C17_NoTtlNeverExpires ==
    (GotKey /\ LastSet.set /\ LastSet.ttl = {})
    => res.out = LastSet.value

\* C17: a value set with no TTL gets default_ttl: until the key is set again,
\* invalidated or cleared, get returns it while less than default_ttl seconds
\* have passed since the set, and absent once more than default_ttl have.
C17_NoTtlExpiresAfterDefault ==
    (GotKey /\ LastSet.set /\ LastSet.ttl = {})
    => /\ res.at < LastSet.at + default_ttl => res.out = LastSet.value
       /\ res.at > LastSet.at + default_ttl => res.out = None

C17_Witness ==
    /\ GotKey /\ LastSet.set /\ LastSet.ttl = {} /\ LastSet.value # None
    /\ res.at > LastSet.at + default_ttl
    /\ res.out = None

\* C18: a get at a time now >= expires_at of the entry it finds returns
\* absent, the instant now = expires_at included.
C18_AbsentFromExpiresAt ==
    [][(/\ res' # res /\ res'.op = "get"
        /\ res'.key \in DOMAIN cache
        /\ now >= cache[res'.key].expires_at)
       => res'.out = None]_vars

\* C19: get(key) returns a value only if that value is the one of the most
\* recent set on the key and no invalidate(key) or clear() came after it; a
\* key never set yields absent.
C19_GetReturnsLastSet ==
    (GotKey /\ res.out # None)
    => /\ LastSet.set
       /\ res.out = LastSet.value

C19_Witness ==
    /\ GotKey /\ res.out = <<"b">>
    /\ LastSet.at < res.at
    /\ \E k \in Keys \ {res.key} : k \in DOMAIN cache /\ cache[k].value = <<"a">>

\* the step is the operation op, recorded in res'
StepOf(op) == res'.op = op /\ res'.at = now /\ now' = now
\* the entries whose expires_at is in the past
Past(c, t) == {k \in DOMAIN c : t > c[k].expires_at}
\* c2 is c less the entries under the keys gone
Less(c, gone, c2) ==
    /\ DOMAIN c2 = DOMAIN c \ gone
    /\ \A k \in DOMAIN c2 : c2[k] = c[k]

\* C23: a get of a key whose entry's expires_at is in the past returns absent
\* and removes that entry and no other, so that the size goes down by one;
\* a get of a key with no entry, or with an entry whose expires_at is still
\* to come, leaves the cache as it was.
C23_GetEvictsOnlyExpired ==
    [][StepOf("get")
       => LET key == res'.key
          IN /\ key \in Past(cache, now)
                => /\ res'.out = None
                   /\ Less(cache, {key}, cache')
                   /\ Cardinality(DOMAIN cache') = Cardinality(DOMAIN cache) - 1
             /\ (key \notin DOMAIN cache \/ now < cache[key].expires_at)
                => cache' = cache]_vars

C23_Witness ==
    /\ res.op = "get" /\ res.at = now /\ res.out = None
    /\ last_set[res.key].evicted
    /\ \E k \in DOMAIN cache : k # res.key /\ now > cache[k].expires_at

\* C24: cleanup_expired removes the entries whose expires_at is in the past
\* and no other, leaves the rest as they were and returns the number
\* removed; a second cleanup_expired at the same time returns 0.
C24_CleanupRemovesExpired ==
    [][StepOf("cleanup")
       => /\ Less(cache, Past(cache, now), cache')
          /\ res'.n = Cardinality(Past(cache, now))
          /\ (res.op = "cleanup" /\ res.at = now) => res'.n = 0]_vars

C24_Witness ==
    /\ res.op = "cleanup" /\ res.n = 1 /\ res.at = now
    /\ Cardinality(DOMAIN cache) = 1
    /\ \E k \in Keys : last_set[k].evicted

\* C25: invalidate(key) raises nothing and leaves no entry under key: it
\* removes the entry if there is one and changes nothing if there is none,
\* and the entries under the other keys stay as they were.
C25_InvalidateRemovesOneKey ==
    [][StepOf("invalidate")
       => /\ res'.raised = NoExc
          /\ Less(cache, {res'.key}, cache')
          /\ res'.key \notin DOMAIN cache => cache' = cache]_vars

C25_Witness ==
    /\ res.op = "invalidate" /\ res.raised = NoExc
    /\ res.key \notin DOMAIN cache
    /\ \E k \in DOMAIN cache : k # res.key

\* C26: size() is the number of entries set and not since invalidated,
\* cleared or evicted by a get or a cleanup_expired, the expired ones among
\* them included; right after clear() it is 0.
C26_SizeCountsStored ==
    /\ [](res.op = "size"
          => res.n = Cardinality({k \in Keys : last_set[k].set /\ ~last_set[k].evicted}))
    /\ [][(res.op = "clear" /\ StepOf("size")) => res'.n = 0]_vars

C26_Witness ==
    /\ res.op = "size" /\ res.n = Cardinality(Keys)
    /\ \A k \in DOMAIN cache : res.at > cache[k].expires_at

\* -------------------------------------------------------- cached_function
RECURSIVE join(_)
join(reprs) ==
    IF Len(reprs) = 0 THEN <<>>
    ELSE IF Len(reprs) = 1 THEN reprs[1]
    ELSE reprs[1] \o <<", ">> \o join(Tail(reprs))

\* repr of an argument: an int prints its digits and a float a ".0" after
\* them; a dict prints its items in insertion order; a DataFrame of 100
\* rows prints its first and last five rows and its shape, the rows
\* between them as "..."
repr(a) ==
    IF a.type = "int" THEN <<ToString(a.v)>>
    ELSE IF a.type = "float" THEN <<ToString(a.v), ".0">>
    ELSE IF a.type = "dict"
    THEN <<"{">>
         \o join([i \in 1..Len(a.v) |->
                     <<"'", a.v[i][1], "': ", ToString(a.v[i][2])>>])
         \o <<"}">>
    ELSE <<"   c\n0  0\n..  ..\n99  0\n\n[100 rows x 1 columns]">>

\* str of a tuple of arguments: "()", "(x,)", "(x, y)"
str_args(args) ==
    IF Len(args) = 1 THEN <<"(">> \o repr(args[1]) \o <<",)">>
    ELSE <<"(">> \o join([i \in 1..Len(args) |-> repr(args[i])]) \o <<")">>

\* the names keyword arguments are passed under, in sorted order
KwNames == <<"x", "y">>
rank(name) == CHOOSE i \in 1..Len(KwNames) : KwNames[i] = name

\* sorted(kwargs.items()): kwargs is a dict, a sequence of <<name, value>>
\* in the order the caller passed them; the names differ, so the sort is
\* by name
sorted(items) ==
    LET n == Len(items)
        p == CHOOSE q \in [1..n -> 1..n] :
                /\ \A i, j \in 1..n : i # j => q[i] # q[j]
                /\ \A i, j \in 1..n :
                      i < j => rank(items[q[i]][1]) < rank(items[q[j]][1])
    IN [i \in 1..n |-> items[p[i]]]

\* str(sorted(kwargs.items())): "[('x', 1), ('y', 2)]"
str_items(kwargs) ==
    LET items == sorted(kwargs)
    IN <<"[">>
       \o join([i \in 1..Len(items) |->
                   <<"('", items[i][1], "', ">> \o repr(items[i][2]) \o <<")">>])
       \o <<"]">>

\* hashlib.md5(...).hexdigest(): different strings have different digests
md5(key_str) == <<"md5">> \o key_str

\* _generate_key: md5 of str((func_name, args, sorted(kwargs.items())))
generate_key(func_name, args, kwargs) ==
    md5(<<"('">> \o func_name \o <<"', ">> \o str_args(args) \o <<", ">>
        \o str_items(kwargs) \o <<")">>)

\* f"{key_prefix}_{func.__name__}"
func_name(fn) == fn.key_prefix \o <<"_">> \o fn.name

\* func(*args, **kwargs): the decorated function is deterministic
result(fn, args) ==
    IF fn.returns = "None" THEN None
    ELSE <<fn.module>> \o fn.name \o <<args[1].type, ToString(args[1].v)>>

NoKwargs == <<>>

\* cached_function.wrapper(*args, **kwargs)
CachedCall(fn, args, kwargs) ==
    LET cache_key == generate_key(func_name(fn), args, kwargs)
        cached_result == get(cache, cache_key, now)
        hit == cached_result # None
        out == IF hit THEN cached_result ELSE result(fn, args)
    IN /\ cache' = IF hit THEN cache
                   ELSE set(get_cache(cache, cache_key, now), cache_key,
                            result(fn, args), {fn.ttl}, now)
       /\ memo' = [op |-> "call", fn |-> fn, args |-> args, key |-> cache_key,
                   at |-> now, invoked |-> ~hit, out |-> out,
                   prev |-> [op |-> memo.op, fn |-> memo.fn, args |-> memo.args,
                             key |-> memo.key, at |-> memo.at,
                             invoked |-> memo.invoked, out |-> memo.out]]
       /\ UNCHANGED <<now, res, last_set, thr>>
       /\ UNCHANGED <<avars, xvars>>

NextMemo ==
    \/ \E d \in {1, default_ttl} : Tick(d)
    \/ \E fn \in Funcs, a \in ArgVals : CachedCall(fn, <<a>>, NoKwargs)

SpecMemo == InitCache /\ [][NextMemo]_vars

\* the last call comes right after a call of the same function
AfterCallOfSame == memo.op = "call" /\ memo.prev.op = "call" /\ memo.prev.fn = memo.fn
\* ... with the same arguments, which invoked the function less than its ttl ago
RepeatedInTtl ==
    /\ AfterCallOfSame
    /\ memo.prev.args = memo.args
    /\ memo.prev.invoked
    /\ memo.at < memo.prev.at + memo.fn.ttl

\* C14: of two calls of a cached_function with identical arguments, the
\* second within the ttl of the first, only the first invokes the function,
\* whatever value it returns; the second returns the value cached.
C14_SecondCallIsCached ==
    RepeatedInTtl => (~memo.invoked /\ memo.out = memo.prev.out)

\* C15: a call of a cached_function with arguments other than those of the
\* call before uses another cache key; the function is invoked once per
\* argument set, not again within the ttl; and a call returns the value of
\* its own arguments, never one cached for other arguments.
C15_DistinctArgsDistinctEntries ==
    /\ (AfterCallOfSame /\ memo.prev.args # memo.args) => memo.key # memo.prev.key
    /\ RepeatedInTtl => ~memo.invoked
    /\ memo.op = "call" => memo.out = result(memo.fn, memo.args)

\* ------------------------------------------ functions sharing the cache
\* the argument the functions of TwinFuncs are called with
TwinArgs == {[type |-> "int", v |-> 1]}

NextTwin ==
    \/ \E d \in {1, default_ttl} : Tick(d)
    \/ \E fn \in TwinFuncs, a \in TwinArgs : CachedCall(fn, <<a>>, NoKwargs)

SpecTwin == InitCache /\ [][NextTwin]_vars

\* the last call comes right after a call of another function with equal
\* arguments
AfterCallOfOther ==
    /\ memo.op = "call" /\ memo.prev.op = "call"
    /\ memo.prev.fn # memo.fn
    /\ memo.prev.args = memo.args

\* C30: two distinct functions wrapped by cached_function use distinct
\* cache keys for equal arguments, and a call to one returns the value that
\* function computes, never the one the other computed and stored.
C30_FunctionsShareNoEntry ==
    AfterCallOfOther
    => /\ memo.key # memo.prev.key
       /\ memo.out = result(memo.fn, memo.args)
       /\ memo.prev.invoked => memo.out # memo.prev.out

\* ------------------------------------------------- sessions sharing the cache
\* Every session's script runs in a thread of its own and all of them use
\* the one _cache_manager, which takes no lock.  A thread can be switched
\* out where the interpreter checks for a switch: at a call (_is_expired)
\* and at the end of a loop iteration.  An operation is a sequence of steps
\* between such points.

Finish(out, raised) == [IdleThread EXCEPT !.pc = "done", !.out = out, !.raised = raised]
Outside(s) == thr[s].pc \in {"idle", "done"}

\* get, up to the call of _is_expired: `if key in self._cache` and
\* `entry = self._cache[key]`
ConcGet(s, key) ==
    /\ Outside(s)
    /\ thr' = [thr EXCEPT ![s] =
                 IF key \in DOMAIN cache
                 THEN [IdleThread EXCEPT !.pc = "get_expired", !.op = "get",
                                         !.key = key, !.entry = cache[key]]
                 ELSE [Finish(None, NoExc) EXCEPT !.op = "get"]]
    /\ UNCHANGED <<cache, now, res, last_set, memo>>
    /\ UNCHANGED <<avars, xvars>>

\* get, from _is_expired(entry) on: return entry["value"], or
\* `del self._cache[key]` and return None
ConcGetExpired(s) ==
    LET f == thr[s]
    IN /\ f.pc = "get_expired"
       /\ IF ~is_expired(f.entry, now)
          THEN /\ thr' = [thr EXCEPT ![s] = [Finish(f.entry.value, NoExc) EXCEPT !.op = "get"]]
               /\ UNCHANGED cache
          ELSE IF f.key \in DOMAIN cache
          THEN /\ thr' = [thr EXCEPT ![s] = [Finish(None, NoExc) EXCEPT !.op = "get"]]
               /\ cache' = Without(cache, f.key)
          ELSE /\ thr' = [thr EXCEPT ![s] = [Finish(None, "KeyError") EXCEPT !.op = "get"]]
               /\ UNCHANGED cache
       /\ UNCHANGED <<now, res, last_set, memo>>
       /\ UNCHANGED <<avars, xvars>>

\* set: the entry is built whole and stored by one dict assignment
ConcSet(s, key, value, ttl) ==
    /\ Outside(s)
    /\ cache' = set(cache, key, value, ttl, now)
    /\ thr' = [thr EXCEPT ![s] = [Finish(None, NoExc) EXCEPT !.op = "set"]]
    /\ UNCHANGED <<now, res, last_set, memo>>
    /\ UNCHANGED <<avars, xvars>>

\* invalidate: `if key in self._cache: del self._cache[key]`, no switch between
ConcInvalidate(s, key) ==
    /\ Outside(s)
    /\ cache' = invalidate(cache, key)
    /\ thr' = [thr EXCEPT ![s] = [Finish(None, NoExc) EXCEPT !.op = "invalidate"]]
    /\ UNCHANGED <<now, res, last_set, memo>>
    /\ UNCHANGED <<avars, xvars>>

\* cleanup_expired: the iterator over self._cache.items() is created
ConcCleanup(s) ==
    /\ Outside(s)
    /\ thr' = [thr EXCEPT ![s] =
                 [IdleThread EXCEPT !.pc = "cleanup_scan", !.op = "cleanup",
                                    !.size = Cardinality(DOMAIN cache)]]
    /\ UNCHANGED <<cache, now, res, last_set, memo>>
    /\ UNCHANGED <<avars, xvars>>

\* one turn of the list comprehension: the iterator raises RuntimeError if
\* the dict changed size, else yields an item, tested by _is_expired
ConcCleanupScan(s) ==
    LET f == thr[s]
    IN /\ f.pc = "cleanup_scan"
       /\ IF Cardinality(DOMAIN cache) # f.size
          THEN thr' = [thr EXCEPT ![s] = [Finish(None, "RuntimeError") EXCEPT !.op = "cleanup"]]
          ELSE IF DOMAIN cache \subseteq f.seen
          THEN thr' = [thr EXCEPT ![s] = [f EXCEPT !.pc = "cleanup_del"]]
          ELSE \E key \in DOMAIN cache \ f.seen :
                 thr' = [thr EXCEPT ![s] =
                           [f EXCEPT !.seen = @ \cup {key},
                                     !.expired_keys =
                                         IF is_expired(cache[key], now)
                                         THEN @ \cup {key} ELSE @]]
       /\ UNCHANGED <<cache, now, res, last_set, memo>>
       /\ UNCHANGED <<avars, xvars>>

\* one turn of `for key in expired_keys: del self._cache[key]`
ConcCleanupDel(s) ==
    LET f == thr[s]
    IN /\ f.pc = "cleanup_del"
       /\ IF f.expired_keys = {}
          THEN /\ thr' = [thr EXCEPT ![s] = [Finish(None, NoExc) EXCEPT !.op = "cleanup"]]
               /\ UNCHANGED cache
          ELSE \E key \in f.expired_keys :
                 IF key \in DOMAIN cache
                 THEN /\ cache' = Without(cache, key)
                      /\ thr' = [thr EXCEPT ![s] = [f EXCEPT !.expired_keys = @ \ {key}]]
                 ELSE /\ thr' = [thr EXCEPT ![s] = [Finish(None, "KeyError") EXCEPT !.op = "cleanup"]]
                      /\ UNCHANGED cache
       /\ UNCHANGED <<now, res, last_set, memo>>
       /\ UNCHANGED <<avars, xvars>>

\* the clock, while threads are inside operations
ConcTick ==
    /\ now + 1 \in Instants
    /\ now' = now + 1
    /\ UNCHANGED <<cache, res, last_set, memo, thr>>
    /\ UNCHANGED <<avars, xvars>>

NextConc ==
    \/ ConcTick
    \/ \E s \in Sessions :
        \/ \E key \in Keys : ConcGet(s, key)
        \/ ConcGetExpired(s)
        \/ \E key \in Keys, value \in Values, ttl \in Ttls : ConcSet(s, key, value, ttl)
        \/ \E key \in Keys : ConcInvalidate(s, key)
        \/ ConcCleanup(s)
        \/ ConcCleanupScan(s)
        \/ ConcCleanupDel(s)

SpecConc == InitCache /\ [][NextConc]_vars

\* C20: whatever the interleaving of the sessions' get, set, invalidate and
\* cleanup_expired, no operation raises, every entry of the dict is whole,
\* and a get returns None or the whole value of some set.
C20_NoRaiseNoTornEntry ==
    /\ \A s \in Sessions :
        /\ thr[s].raised = NoExc
        /\ (thr[s].pc = "done" /\ thr[s].op = "get") => thr[s].out \in Values \cup {None}
    /\ \A key \in DOMAIN cache :
        /\ DOMAIN cache[key] = {"value", "created_at", "expires_at"}
        /\ cache[key].value \in Values

\* ------------------------------------------------------- _generate_key
\* _generate_key as a function of its inputs.

Float1 == [type |-> "float", v |-> 1]
\* the dict {"a": 1, "b": 2}, built in either order
DictAB == [type |-> "dict", v |-> <<<<"a", 1>>, <<"b", 2>>>>]
DictBA == [type |-> "dict", v |-> <<<<"b", 2>>, <<"a", 1>>>>]
KeyArgVals == ArgVals \cup {Float1, DictAB, DictBA}
KwVals == {[type |-> "int", v |-> 1]}

\* args of a call: no argument or one
KeyArgs == {<<>>} \cup {<<a>> : a \in KeyArgVals}
\* kwargs of a call, in the order passed: none, one, or x and y in either order
KeyKwargs ==
    LET names == {KwNames[i] : i \in 1..Len(KwNames)}
        two == {<<<<n, v>>, <<m, w>>>> : n \in names, m \in names,
                                         v \in KwVals, w \in KwVals}
    IN {<<>>}
       \cup {<<<<n, v>>>> : n \in names, v \in KwVals}
       \cup {kw \in two : kw[1][1] # kw[2][1]}

\* a == b in Python
py_eq(a, b) ==
    IF a.type \in {"int", "float"} /\ b.type \in {"int", "float"} THEN a.v = b.v
    ELSE IF a.type # b.type THEN FALSE
    ELSE IF a.type = "dict"
    THEN {a.v[i] : i \in 1..Len(a.v)} = {b.v[i] : i \in 1..Len(b.v)}
    ELSE a.v = b.v

\* equal tuples of positional arguments, and equal kwargs dicts
args_eq(a, b) == Len(a) = Len(b) /\ \A i \in 1..Len(a) : py_eq(a[i], b[i])
kwargs_eq(a, b) ==
    /\ {a[i][1] : i \in 1..Len(a)} = {b[i][1] : i \in 1..Len(b)}
    /\ \A i \in 1..Len(a), j \in 1..Len(b) :
          a[i][1] = b[j][1] => py_eq(a[i][2], b[j][2])

GenerateKey(name, args, kwargs) ==
    /\ gk' = [last |-> [op |-> "key", func_name |-> name, args |-> args,
                        kwargs |-> kwargs,
                        key |-> generate_key(name, args, kwargs)],
              prev |-> gk.last]
    /\ UNCHANGED <<avars, cvars, mvars, gvars, rvars>>

NextKey ==
    \E fn \in Funcs, args \in KeyArgs, kwargs \in KeyKwargs :
        GenerateKey(func_name(fn), args, kwargs)

SpecKey == InitCache /\ [][NextKey]_vars

\* C21: two calls of _generate_key with the same func_name, equal positional
\* arguments in the same order and equal keyword arguments, in whatever
\* order they were passed, give the same key.
C21_EqualArgsSameKey ==
    (/\ gk.last.op = "key" /\ gk.prev.op = "key"
     /\ gk.last.func_name = gk.prev.func_name
     /\ args_eq(gk.last.args, gk.prev.args)
     /\ kwargs_eq(gk.last.kwargs, gk.prev.kwargs))
    => gk.last.key = gk.prev.key

\* ------------------------------------------------------------ analytics
\* monitoring/analytics.py: track_page_view and track_action, called by the
\* pages of a session.

\* what the pages pass: page names, actions, and details (None, as the
\* pages do, or a dict that json.dumps accepts)
Pages == {"home", "settings"}
Actions == {"save_preferences"}
Details == {"None", "{\"button\": \"export\"}"}
\* where the store raises: nowhere, in get_session() (no connection), or
\* in session.commit()
StoreFailures == {NoExc, "get_session", "commit"}
\* what it raises there
StoreException(failed) ==
    IF failed = "get_session" THEN "Exception" ELSE "OperationalError"

\* user.get("email") if user else "anonymous"
user_email(u) ==
    IF get_current_user(u) = NoUser THEN "anonymous"
    ELSE ToString(get_current_user(u).email)

ActivityLog(email, action, page, details) ==
    [user_email |-> email, action |-> action, page |-> page, details |-> details]

AnalyticsCatches_sqlalchemy(e) == e = "OperationalError"

\* except Exception as e
AnalyticsCatches(e) == e \in {"Exception", "OperationalError"}

\* the part both functions share: log_event(event), then, if
\* enable_analytics, the try block that adds and commits log_entry
Track(fn, event, log_entry, enabled, failed) ==
    LET stored == enabled /\ failed = NoExc
        caught == enabled /\ failed # NoExc /\ AnalyticsCatches(StoreException(failed))
        escaped == enabled /\ failed # NoExc /\ ~AnalyticsCatches(StoreException(failed))
    IN /\ activity_logs' = IF stored THEN Append(activity_logs, log_entry)
                           ELSE activity_logs
       /\ trk' = [fn |-> fn, enabled |-> enabled,
                  failed |-> IF enabled THEN failed ELSE NoExc,
                  opened |-> enabled,
                  wrote |-> stored,
                  events |-> IF caught THEN <<event, "analytics_error">>
                             ELSE <<event>>,
                  raised |-> IF escaped THEN StoreException(failed) ELSE NoExc]

\* what the table can take
HasRoom == Len(activity_logs) < MaxLogs

track_page_view(s, page_name, enabled, failed) ==
    /\ HasRoom
    /\ Track("track_page_view", "page_view",
             ActivityLog(user_email(st_user[s]), "page_view", page_name, "None"),
             enabled, failed)
    /\ UNCHANGED <<avars, cvars, kvars, gvars, rvars>>

track_action(s, action, details, page, enabled, failed) ==
    /\ HasRoom
    /\ Track("track_action", "user_action",
             ActivityLog(user_email(st_user[s]), action, page, details),
             enabled, failed)
    /\ UNCHANGED <<avars, cvars, kvars, gvars, rvars>>

\* the sessions are in any state the identity provider can leave them in
InitTrack ==
    /\ users = {}
    /\ st_user \in [Sessions -> StUser]
    /\ run = [s \in Sessions |-> IdleRun]
    /\ CacheIdle
    /\ OthersIdle

NextTrack ==
    \E s \in Sessions, enabled \in BOOLEAN, failed \in StoreFailures :
        \/ \E page_name \in Pages : track_page_view(s, page_name, enabled, failed)
        \/ \E action \in Actions, details \in Details, page \in Pages :
              track_action(s, action, details, page, enabled, failed)

SpecTrack == InitTrack /\ [][NextTrack]_vars

RoleInStore(s) == {r.role : r \in FindByEmail(users, run[s].user.email)}

\* C27: a guard keeps no decision from one call to the next: whatever the
\* previous call of the session decided, a finished call was decided on
\* what the identity collaborator and the store say now.  A caller who is
\* not authenticated now is halted; under require_auth an authenticated
\* caller runs; under require_role the principal is the one reported now,
\* the role is the one the store holds now, and the body ran exactly when
\* that role is allowed.
C27_DecidedOnCurrentState ==
    \A s \in Sessions :
        (Done(s) /\ run[s].guard # "none")
        => /\ ~is_authenticated(st_user[s])
              => run[s].body_runs = 0 /\ run[s].stopped
           /\ (is_authenticated(st_user[s]) /\ run[s].guard = "require_auth")
              => run[s].body_runs = 1
           /\ (is_authenticated(st_user[s]) /\ run[s].guard = "require_role")
              => /\ run[s].user = get_current_user(st_user[s])
                 /\ (run[s].user # NoUser /\ run[s].exc = NoExc)
                    => RoleInStore(s) = {run[s].user_role}
                 /\ (run[s].body_runs = 1) = (run[s].user_role \in run[s].allowed)
                 /\ (run[s].body_runs = 0) = run[s].stopped

\* the previous call ran the body as admin; the row's role was changed and
\* the same principal's next call is refused as user
C27_Witness ==
    \E s \in Sessions :
        /\ prev_call[s].guard = "require_role" /\ prev_call[s].body_runs = 1
        /\ prev_call[s].user_role = "admin"
        /\ Done(s) /\ run[s].guard = "require_role"
        /\ run[s].user = prev_call[s].user
        /\ run[s].exc = NoExc
        /\ run[s].user_role = "user" /\ run[s].stopped /\ run[s].body_runs = 0

\* the previous call ran the body; the session logged out and its next call
\* is halted at the login button
C27_WitnessLogout ==
    \E s \in Sessions :
        /\ prev_call[s].guard = "require_auth" /\ prev_call[s].body_runs = 1
        /\ Done(s) /\ run[s].guard = "require_auth" /\ LoggedOut(s)
        /\ run[s].stopped /\ run[s].body_runs = 0

\* session.refresh(new_user) is reached only after session.commit() returned
Committed(s) == Did(s, "refresh")

\* C29: a get_user_role call that ended in the except branch persisted no
\* row: its commit did not go through, and the table holds no row that the
\* call added.
C29_FallbackLeavesStore ==
    \A s \in Sessions :
        (Done(s) /\ run[s].exc # NoExc) => ~Committed(s)

\* ----------------------------------------------------------------- retry
\* retry(max_attempts, delay) of utils/decorators.py around a function that
\* returns or raises anew at each invocation.

\* what an invocation of func raises: two exceptions derived from Exception
\* and KeyboardInterrupt, which derives from BaseException only
Exceptions == {"ValueError", "ConnectionError", "KeyboardInterrupt"}
\* an invocation returns ("ok") or raises
Outcomes == {"ok"} \cup Exceptions
\* the delay argument, in seconds
Delays == {0, 1}

\* "except Exception as e"
RetryCatches(e) == e \in {"ValueError", "ConnectionError"}

\* mutation: the last attempt sleeps too
more_attempts_always(attempt, max_attempts) == attempt < max_attempts

\* "if attempt < max_attempts - 1"
more_attempts(attempt, max_attempts) == attempt < max_attempts - 1

\* what the n-th invocation of func returns when it succeeds
func_result(n) == <<"result", ToString(n)>>

\* wrapper(*args, **kwargs) up to the first invocation: last_exception =
\* None; for attempt in range(max_attempts): an empty range falls through
\* to "return None"
RetryEnter(max_attempts, delay) ==
    /\ rty.pc = "idle"
    /\ rty' = [NoRetry EXCEPT !.max_attempts = max_attempts, !.delay = delay,
                              !.pc = IF 0 < max_attempts THEN "try" ELSE "done"]
    /\ UNCHANGED <<avars, cvars, kvars, mvars, gvars>>

\* try: return func(*args, **kwargs) / except Exception as e
RetryAttempt(outcome) ==
    /\ rty.pc = "try"
    /\ LET f == [rty EXCEPT !.outcomes = Append(@, outcome)] IN
       rty' = IF outcome = "ok"
              THEN [f EXCEPT !.returned = func_result(Len(f.outcomes)),
                             !.pc = "done"]
              ELSE IF ~RetryCatches(outcome)
              THEN [f EXCEPT !.raised = outcome, !.pc = "done"]
              ELSE IF more_attempts(f.attempt, f.max_attempts)
              THEN [f EXCEPT !.last_exception = outcome, !.pc = "sleep"]
              ELSE [f EXCEPT !.last_exception = outcome, !.raised = outcome,
                             !.pc = "done"]
    /\ UNCHANGED <<avars, cvars, kvars, mvars, gvars>>

\* time.sleep(delay); continue: the next value of range(max_attempts), or
\* the end of the loop and "return None"
RetrySleep ==
    /\ rty.pc = "sleep"
    /\ rty' = [rty EXCEPT !.slept = Append(@, rty.delay),
                          !.attempt = @ + 1,
                          !.pc = IF rty.attempt + 1 < rty.max_attempts
                                 THEN "try" ELSE "done"]
    /\ UNCHANGED <<avars, cvars, kvars, mvars, gvars>>

\* the caller has the result or the exception
RetryLeave ==
    /\ rty.pc = "done"
    /\ rty' = NoRetry
    /\ UNCHANGED <<avars, cvars, kvars, mvars, gvars>>

NextRetry ==
    \/ \E max_attempts \in 0..MaxAttempts, delay \in Delays :
          RetryEnter(max_attempts, delay)
    \/ \E outcome \in Outcomes : RetryAttempt(outcome)
    \/ RetrySleep
    \/ RetryLeave

\* an invocation of func and a time.sleep both come back
SpecRetry ==
    /\ InitCache /\ [][NextRetry]_vars
    /\ WF_vars(\E outcome \in Outcomes : RetryAttempt(outcome))
    /\ WF_vars(RetrySleep)

\* the invocations so far that raised an exception the handler catches
Failures == {i \in 1..Len(rty.outcomes) : RetryCatches(rty.outcomes[i])}
Invocations == Len(rty.outcomes)
\* the sleeps due: one after each failed attempt but the last
SleepsDue ==
    IF rty.pc = "try" THEN Invocations
    ELSE IF Invocations = 0 THEN 0 ELSE Invocations - 1

\* C28: func is invoked at most max_attempts times; nothing is invoked
\* after a success, whose result the wrapper returns; the wrapper sleeps
\* delay after each failed attempt that another attempt follows, and only
\* then; after max_attempts failures in a row it raises the exception of
\* the last attempt; and every call of the wrapper ends.
C28_RetryBounded ==
    /\ [](/\ Invocations <= rty.max_attempts
          /\ \A i \in 1..(Invocations - 1) : i \in Failures
          /\ (rty.pc = "done" /\ Invocations > 0
                 /\ rty.outcomes[Invocations] = "ok")
             => /\ rty.returned = func_result(Invocations)
                /\ rty.raised = NoExc
          /\ \A i \in 1..Len(rty.slept) : rty.slept[i] = rty.delay
          /\ Len(rty.slept) = SleepsDue
          /\ (rty.pc = "done" /\ rty.max_attempts > 0
                 /\ Cardinality(Failures) = rty.max_attempts)
             => /\ rty.raised = rty.outcomes[rty.max_attempts]
                /\ rty.returned = None)
    /\ (rty.pc = "try") ~> (rty.pc = "done")

\* three attempts failed, the last one otherwise than the first two; the
\* wrapper slept twice and raised the last exception
C28_Witness ==
    /\ rty.pc = "done" /\ rty.max_attempts = 3 /\ rty.delay = 1
    /\ rty.outcomes = <<"ValueError", "ValueError", "ConnectionError">>
    /\ rty.slept = <<1, 1>>
    /\ rty.raised = "ConnectionError"

====
